---- MODULE Spec2Model ----
(***************************************************************************)
(* Model of examples/transformers/entity.py: a straight-line Python module *)
(* that builds a "ner" pipeline, calls it on a text, and collects the      *)
(* 'word' entry of every returned entity into `values`, then `result`.     *)
(*                                                                         *)
(* The module namespace is the dictionary `globals' (name -> value); a     *)
(* name is bound iff it is in DOMAIN globals.  The external library is     *)
(* opaque: a call to pipeline(...) or ner(...) either raises or returns,   *)
(* and ner(...) may return any finite list of dictionaries.                *)
(***************************************************************************)
EXTENDS Naturals, Sequences, FiniteSets, TLC

\* Longest list of entities the pipeline returns in the model.
MaxEntities == 4

VARIABLES
    pc,            \* source line about to execute, or "done" / "error"
    globals,       \* the module namespace: bound name -> value
    it,            \* index of the list iterator of the for statement (line 8)
    exc,           \* the exception that ended the script, "" when none
    constructions, \* arguments of every call of pipeline(...), in order
    invocations    \* (pipeline object, text) of every call of ner(...), in order

vars == <<pc, globals, it, exc, constructions, invocations>>

----------------------------------------------------------------------------
\* Values of the program

Text == "Apple was founded by Steve Jobs in Cupertino, California."

Words == {"Apple", "Steve Jobs", "Cupertino", "California"}

GroupOf(w) ==
    CASE w = "Apple" -> "ORG"
      [] w = "Steve Jobs" -> "PER"
      [] OTHER -> "LOC"

\* Dictionaries the pipeline may return as list elements: grouped entities
\* with a 'word' key, and one dictionary that has no 'word' key.
EntityRecords ==
    {[word |-> w, entity_group |-> GroupOf(w)] : w \in Words}
        \cup {[entity_group |-> "MISC"]}

RECURSIVE SeqsUpTo(_, _)
SeqsUpTo(S, n) ==
    IF n = 0 THEN {<<>>}
    ELSE LET shorter == SeqsUpTo(S, n - 1)
         IN shorter \cup {Append(s, x) : s \in {t \in shorter : Len(t) = n - 1}, x \in S}

\* Every list ner(text) may return.
PipelineResults == SeqsUpTo(EntityRecords, MaxEntities)

----------------------------------------------------------------------------
\* Python primitives

Bound(name) == name \in DOMAIN globals

\* name = value  (binds or rebinds a module-level name)
Bind(g, name, value) ==
    [n \in DOMAIN g \cup {name} |-> IF n = name THEN value ELSE g[n]]

\* d[key] is defined iff key is a key of d; otherwise KeyError
HasKey(d, key) == key \in DOMAIN d

Subscript(d, key) == d[key]

\* l.append(x)
ListAppend(l, x) == Append(l, x)

\* The module-level names of the script, read from the namespace.
ner == globals["ner"]
text == globals["text"]
entities == globals["entities"]
values == globals["values"]
entity == globals["entity"]
result == globals["result"]

\* raise: the exception is not caught anywhere, the script ends
Raise(e) ==
    /\ pc' = "error"
    /\ exc' = e

----------------------------------------------------------------------------
Init ==
    /\ pc = "L1"
    /\ globals = [n \in {} |-> 0]
    /\ it = 0
    /\ exc = ""
    /\ constructions = <<>>
    /\ invocations = <<>>

\* line 1: from transformers import pipeline
Import ==
    /\ pc = "L1"
    /\ \/ /\ globals' = Bind(globals, "pipeline", "transformers.pipeline")
          /\ pc' = "L3"
          /\ UNCHANGED exc
       \/ /\ Raise("ImportError")
          /\ UNCHANGED globals
    /\ UNCHANGED <<it, constructions, invocations>>

\* line 3: ner = pipeline("ner", grouped_entities=True)
Construct ==
    /\ pc = "L3"
    /\ constructions' = Append(constructions, [task |-> "ner", grouped_entities |-> TRUE])
    /\ \/ /\ globals' = Bind(globals, "ner",
                             [task |-> "ner", grouped_entities |-> TRUE,
                              id |-> Len(constructions) + 1])
          /\ pc' = "L4"
          /\ UNCHANGED exc
       \/ /\ Raise("PipelineConstructError")
          /\ UNCHANGED globals
    /\ UNCHANGED <<it, invocations>>

\* line 4: text = "Apple was founded ..."
AssignText ==
    /\ pc = "L4"
    /\ globals' = Bind(globals, "text", Text)
    /\ pc' = "L5"
    /\ UNCHANGED <<it, exc, constructions, invocations>>

\* Variant of line 5 that catches the pipeline's exception, records it and
\* goes on with an empty list.
Call_SwallowError ==
    /\ pc = "L5"
    /\ invocations' = Append(invocations, [pipeline |-> ner, text |-> text])
    /\ \/ \E r \in PipelineResults :
             /\ globals' = Bind(globals, "entities", r)
             /\ UNCHANGED exc
       \/ /\ globals' = Bind(globals, "entities", <<>>)
          /\ exc' = "PipelineCallError"
    /\ pc' = "L7"
    /\ UNCHANGED <<it, constructions>>

\* Variant of line 5 that builds a fresh pipeline for the call instead of
\* using the one bound at line 3.
Call_Reconstruct ==
    /\ pc = "L5"
    /\ constructions' = Append(constructions, [task |-> "ner", grouped_entities |-> TRUE])
    /\ invocations' = Append(invocations,
                             [pipeline |-> [task |-> "ner", grouped_entities |-> TRUE,
                                            id |-> Len(constructions) + 1],
                              text |-> text])
    /\ \/ \E r \in PipelineResults :
             /\ globals' = Bind(globals, "entities", r)
             /\ pc' = "L7"
             /\ UNCHANGED exc
       \/ /\ Raise("PipelineCallError")
          /\ UNCHANGED globals
    /\ UNCHANGED it

\* Variant of line 5 that invokes the pipeline a second time and keeps the
\* second answer.
Call_Twice ==
    /\ pc = "L5"
    /\ invocations' = invocations \o << [pipeline |-> ner, text |-> text],
                                        [pipeline |-> ner, text |-> text] >>
    /\ \/ \E r \in PipelineResults :
             /\ globals' = Bind(globals, "entities", r)
             /\ pc' = "L7"
             /\ UNCHANGED exc
       \/ /\ Raise("PipelineCallError")
          /\ UNCHANGED globals
    /\ UNCHANGED <<it, constructions>>

\* line 5: entities = ner(text)
Call ==
    /\ pc = "L5"
    /\ invocations' = Append(invocations, [pipeline |-> ner, text |-> text])
    /\ \/ \E r \in PipelineResults :
             /\ globals' = Bind(globals, "entities", r)
             /\ pc' = "L7"
             /\ UNCHANGED exc
       \/ /\ Raise("PipelineCallError")
          /\ UNCHANGED globals
    /\ UNCHANGED <<it, constructions>>

\* line 7: values = []
InitValues ==
    /\ pc = "L7"
    /\ globals' = Bind(globals, "values", <<>>)
    /\ pc' = "L8"
    /\ UNCHANGED <<it, exc, constructions, invocations>>

\* Variant of line 8 whose iteration stops one element early.
ForNext_StopEarly ==
    /\ pc = "L8"
    /\ IF it + 1 < Len(entities)
       THEN /\ globals' = Bind(globals, "entity", entities[it + 1])
            /\ it' = it + 1
            /\ pc' = "L9"
       ELSE /\ pc' = "L11"
            /\ UNCHANGED <<globals, it>>
    /\ UNCHANGED <<exc, constructions, invocations>>

\* line 8: for entity in entities:   (one next() of the list iterator)
ForNext ==
    /\ pc = "L8"
    /\ IF it < Len(entities)
       THEN /\ globals' = Bind(globals, "entity", entities[it + 1])
            /\ it' = it + 1
            /\ pc' = "L9"
       ELSE /\ pc' = "L11"
            /\ UNCHANGED <<globals, it>>
    /\ UNCHANGED <<exc, constructions, invocations>>

\* Variant of line 9 that appends a word only when it is not in the list yet.
LoopBody_Dedup ==
    /\ pc = "L9"
    /\ IF HasKey(entity, "word")
       THEN /\ globals' =
                 IF \E k \in 1..Len(values) : values[k] = Subscript(entity, "word")
                 THEN globals
                 ELSE Bind(globals, "values", ListAppend(values, Subscript(entity, "word")))
            /\ pc' = "L8"
            /\ UNCHANGED exc
       ELSE /\ Raise("KeyError")
            /\ UNCHANGED globals
    /\ UNCHANGED <<it, constructions, invocations>>

\* Variant of line 9 that appends the word twice.
LoopBody_AppendTwice ==
    /\ pc = "L9"
    /\ IF HasKey(entity, "word")
       THEN /\ globals' = Bind(globals, "values",
                               ListAppend(ListAppend(values, Subscript(entity, "word")),
                                          Subscript(entity, "word")))
            /\ pc' = "L8"
            /\ UNCHANGED exc
       ELSE /\ Raise("KeyError")
            /\ UNCHANGED globals
    /\ UNCHANGED <<it, constructions, invocations>>

\* Variant of line 9 that takes the word out of the dictionary
\* (entity.pop('word')); the dictionary is the one held by `entities`.
LoopBody_PopWord ==
    /\ pc = "L9"
    /\ IF HasKey(entity, "word")
       THEN /\ LET stripped == [k \in DOMAIN entity \ {"word"} |-> entity[k]]
                   appended == Bind(globals, "values",
                                    ListAppend(values, Subscript(entity, "word")))
               IN globals' = Bind(Bind(appended, "entity", stripped), "entities",
                                  [entities EXCEPT ![it] = stripped])
            /\ pc' = "L8"
            /\ UNCHANGED exc
       ELSE /\ Raise("KeyError")
            /\ UNCHANGED globals
    /\ UNCHANGED <<it, constructions, invocations>>

\* Variant of line 9 that inserts the word at the front (values.insert(0, ...)).
LoopBody_Prepend ==
    /\ pc = "L9"
    /\ IF HasKey(entity, "word")
       THEN /\ globals' = Bind(globals, "values", <<Subscript(entity, "word")>> \o values)
            /\ pc' = "L8"
            /\ UNCHANGED exc
       ELSE /\ Raise("KeyError")
            /\ UNCHANGED globals
    /\ UNCHANGED <<it, constructions, invocations>>

\* Variant of line 9 that skips a dictionary without a 'word' key.
LoopBody_SkipMissing ==
    /\ pc = "L9"
    /\ globals' = IF HasKey(entity, "word")
                  THEN Bind(globals, "values", ListAppend(values, Subscript(entity, "word")))
                  ELSE globals
    /\ pc' = "L8"
    /\ UNCHANGED <<it, exc, constructions, invocations>>

\* line 9: values.append(entity['word'])
LoopBody ==
    /\ pc = "L9"
    /\ IF HasKey(entity, "word")
       THEN /\ globals' = Bind(globals, "values",
                               ListAppend(values, Subscript(entity, "word")))
            /\ pc' = "L8"
            /\ UNCHANGED exc
       ELSE /\ Raise("KeyError")
            /\ UNCHANGED globals
    /\ UNCHANGED <<it, constructions, invocations>>

\* line 11: result = values
AssignResult ==
    /\ pc = "L11"
    /\ globals' = Bind(globals, "result", values)
    /\ pc' = "done"
    /\ UNCHANGED <<it, exc, constructions, invocations>>

Next ==
    \/ Import
    \/ Construct
    \/ AssignText
    \/ Call
    \/ InitValues
    \/ ForNext
    \/ LoopBody
    \/ AssignResult

Spec == Init /\ [][Next]_vars

\* The interpreter runs the next statement whenever there is one.
FairSpec == Spec /\ WF_vars(Next)

----------------------------------------------------------------------------
\* Properties

\* The pipeline's answer for Text shown in the documentation.
ExampleEntities ==
    << [word |-> "Apple", entity_group |-> "ORG"],
       [word |-> "Steve Jobs", entity_group |-> "PER"],
       [word |-> "Cupertino", entity_group |-> "LOC"],
       [word |-> "California", entity_group |-> "LOC"] >>

\* The 'word' entries of a list of dictionaries that all have one.
WordsOf(s) == [k \in 1..Len(s) |-> s[k].word]

AllHaveWord(s) == \A k \in 1..Len(s) : HasKey(s[k], "word")

\* No statement can execute: the script has ended.
Halted == ~ENABLED Next

PipelineErrors == {"PipelineConstructError", "PipelineCallError"}

\* The statements from the return of ner(text) to the end of the script.
ExtractionLines == {"L7", "L8", "L9", "L11"}

\* C1: when the script finishes, result is the list of the 'word' entries of
\* the entities, same length and same order, nothing dropped, deduplicated
\* or reordered; for the documented entities it is
\* ["Apple", "Steve Jobs", "Cupertino", "California"].
C1_ResultIsWords ==
    pc = "done" =>
        /\ Bound("result")
        /\ Len(result) = Len(entities)
        /\ \A k \in 1..Len(entities) :
              HasKey(entities[k], "word") /\ result[k] = entities[k].word
        /\ entities = ExampleEntities =>
              result = <<"Apple", "Steve Jobs", "Cupertino", "California">>

\* The script finished on a list in which two entities carry the same word.
C1_Witness ==
    /\ pc = "done"
    /\ Len(entities) = 3
    /\ entities[1].word = "Apple" /\ entities[2].word = "Cupertino"
    /\ entities[3].word = "Apple"
    /\ result = <<"Apple", "Cupertino", "Apple">>

\* C2: in every state the output list (values, and result once assigned) is
\* no longer than the list of entities the pipeline returned.
C2_LengthBound ==
    /\ Bound("values") => Bound("entities") /\ Len(values) <= Len(entities)
    /\ Bound("result") => Bound("entities") /\ Len(result) <= Len(entities)

\* The loop was cut short: values is not empty and strictly shorter.
C2_Witness ==
    /\ pc = "error"
    /\ Bound("values")
    /\ 0 < Len(values)
    /\ Len(values) < Len(entities)

\* C3: an exception raised by pipeline(...) or by ner(text) ends the script
\* in the error state, with no statement left to run, the failing call made
\* once, values never created and result never assigned.
C3_PipelineErrorPropagates ==
    exc \in PipelineErrors =>
        /\ pc = "error"
        /\ Halted
        /\ Len(constructions) = 1
        /\ Len(invocations) = (IF exc = "PipelineCallError" THEN 1 ELSE 0)
        /\ ~Bound("values")
        /\ ~Bound("result")
        /\ ~Bound("entities")

\* ner(text) raised.
C3_Witness ==
    /\ exc = "PipelineCallError"
    /\ pc = "error"
    /\ Len(invocations) = 1

\* C4: pipeline(...) is called at most once, with task "ner" and grouped
\* entities on; from line 4 on it has been called exactly once, `ner` is
\* bound to the object of that call, and every invocation is on that object.
C4_SinglePipeline ==
    /\ Len(constructions) <= 1
    /\ \A k \in 1..Len(constructions) :
          constructions[k] = [task |-> "ner", grouped_entities |-> TRUE]
    /\ (pc \notin {"L1", "L3"} /\ exc \notin {"ImportError", "PipelineConstructError"}) =>
          /\ Len(constructions) = 1
          /\ Bound("ner")
          /\ ner = [task |-> "ner", grouped_entities |-> TRUE, id |-> 1]
    /\ \A k \in 1..Len(invocations) :
          Bound("ner") /\ invocations[k].pipeline = ner

\* The script finished after invoking the pipeline.
C4_Witness ==
    /\ pc = "done"
    /\ Len(constructions) = 1
    /\ Len(invocations) = 1
    /\ invocations[1].pipeline.id = 1

\* A step of the extraction keeps every bound name other than those in
\* `written', and with it the entities list, its dictionaries and the text.
ExtractionWritesOnly(written) ==
    pc \in ExtractionLines =>
        /\ DOMAIN globals \subseteq DOMAIN globals'
        /\ \A n \in DOMAIN globals' \ written :
              n \in DOMAIN globals /\ globals'[n] = globals[n]
        /\ entities' = entities
        /\ text' = text

\* C5 as stated: from the return of the pipeline to the end of the script
\* entities and text are unchanged, and the only names written are values
\* and result.
C5_OnlyValuesAndResult == [][ExtractionWritesOnly({"values", "result"})]_vars

\* C5 as the code has it: the same, with the loop variable entity written
\* as well.
C5_ReadThrough == [][ExtractionWritesOnly({"values", "result", "entity"})]_vars

\* The loop visited every entity of a non-empty list and the script finished.
C5_Witness ==
    /\ pc = "done"
    /\ Len(entities) > 0
    /\ Bound("entity")
    /\ entity = entities[Len(entities)]
    /\ text = Text

\* Position of a statement in the file; the two end states come last.
Rank(l) ==
    CASE l = "L1" -> 1 [] l = "L3" -> 3 [] l = "L4" -> 4 [] l = "L5" -> 5
      [] l = "L7" -> 7 [] l = "L8" -> 8 [] l = "L9" -> 9 [] l = "L11" -> 11
      [] OTHER -> 12

\* What has happened by the time each part of the script has run.
OrderInv ==
    /\ Len(invocations) <= 1
    /\ \A k \in 1..Len(invocations) :
          /\ Len(constructions) = 1
          /\ Bound("ner")
          /\ invocations[k].text = Text
    /\ Bound("entities") => Len(invocations) = 1
    /\ (Bound("values") \/ Bound("entity") \/ it > 0) =>
          Bound("entities") /\ Len(invocations) = 1
    /\ Bound("result") =>
          /\ it = Len(entities)
          /\ Len(values) = Len(entities)
          /\ pc = "done"

\* Statements run top to bottom; the only step backwards is from the loop
\* body to the loop head, and each such round visits a new entity.
OrderStep ==
    /\ \/ Rank(pc') > Rank(pc)
       \/ pc = "L9" /\ pc' = "L8"
    /\ it' \in {it, it + 1}
    /\ it' = it + 1 <=> (pc = "L8" /\ pc' = "L9")

\* C6: one fixed order with one inference call: the pipeline is constructed
\* before it is invoked, it is invoked once on the text, extraction starts
\* after the call has returned, result is assigned after every entity has
\* been visited, and no statement is repeated outside the loop.
C6_FixedOrder == []OrderInv /\ [][OrderStep]_vars

\* The script finished a run whose loop went round more than once.
C6_Witness ==
    /\ pc = "done"
    /\ Len(invocations) = 1
    /\ it = 2
    /\ Bound("result")

\* Number of entities whose word has been appended.
Visited == IF pc = "L9" \/ exc = "KeyError" THEN it - 1 ELSE it

\* C7: during the loop values is the list of the words of the entities
\* visited so far, and one round of the body appends exactly one word at
\* the end without changing the words already there.
C7_LoopInvariant ==
    /\ [](Bound("values") =>
            /\ Visited \in 0..Len(entities)
            /\ AllHaveWord(SubSeq(entities, 1, Visited))
            /\ values = WordsOf(SubSeq(entities, 1, Visited)))
    /\ [][(pc = "L9" /\ pc' = "L8") =>
            /\ Len(values') = Len(values) + 1
            /\ SubSeq(values', 1, Len(values)) = values
            /\ values'[Len(values')] = entity.word]_vars

\* The loop is at its head with two entities visited and more to come.
C7_Witness ==
    /\ pc = "L8"
    /\ it = 2
    /\ it < Len(entities)
    /\ values = <<entities[1].word, entities[2].word>>
    /\ entities[1].word # entities[2].word

\* C8: when every returned dictionary has a 'word' key the script
\* terminates with result assigned, after exactly Len(entities) rounds.
C8_Terminates ==
    /\ (pc = "L7" /\ AllHaveWord(entities)) ~> (pc = "done" /\ Bound("result"))
    /\ []((pc \in ExtractionLines \cup {"done"} /\ AllHaveWord(entities)) => exc = "")
    /\ [](pc = "done" =>
            /\ it = Len(entities)
            /\ Len(values) = Len(entities)
            /\ Halted)

\* The script terminated after as many rounds as the bound allows.
C8_Witness ==
    /\ pc = "done"
    /\ it = MaxEntities
    /\ Len(entities) = MaxEntities
    /\ Bound("result")

\* Index of the first dictionary without a 'word' key, 0 when there is none.
FirstMissing(s) ==
    IF AllHaveWord(s) THEN 0
    ELSE CHOOSE k \in 1..Len(s) :
            /\ ~HasKey(s[k], "word")
            /\ AllHaveWord(SubSeq(s, 1, k - 1))

\* C9: a dictionary without a 'word' key stops the script with KeyError at
\* the first such dictionary: values holds the words of the ones before it,
\* none after it is visited, it is neither skipped nor defaulted, and
\* result is never assigned.
C9_MissingWordStops ==
    (Bound("entities") /\ ~AllHaveWord(entities)) =>
        /\ it <= FirstMissing(entities)
        /\ ~Bound("result")
        /\ pc # "done"
        /\ Bound("values") => Len(values) < FirstMissing(entities)
        /\ (it = FirstMissing(entities) /\ pc # "L9") =>
              /\ pc = "error"
              /\ exc = "KeyError"
              /\ Halted
              /\ values = WordsOf(SubSeq(entities, 1, it - 1))
        /\ exc = "KeyError" => it = FirstMissing(entities)

\* KeyError at the third of four dictionaries, the fourth of which has a word.
C9_Witness ==
    /\ exc = "KeyError"
    /\ pc = "error"
    /\ it = 3
    /\ Len(entities) = 4
    /\ HasKey(entities[4], "word")
    /\ Len(values) = 2

====
